---- MODULE Spec2Model ----
(***************************************************************************)
(* License-plate detection app (src/app.py): one Streamlit script run per  *)
(* upload.  A run saves the uploaded file under temp/, dispatches on the   *)
(* file extension, detects boxes, draws and crops each box, runs OCR on    *)
(* the crop, drops near-duplicate lines, writes the annotated image and    *)
(* renders the result.  Streamlit runs every browser session in a thread   *)
(* of its own; all sessions share the temp/ directory.                     *)
(*                                                                         *)
(* Strings are tuples of one-character strings, so that splitext, lower,   *)
(* strip and SequenceMatcher work on characters as the code does.          *)
(***************************************************************************)
EXTENDS Integers, Sequences, FiniteSets, TLC

VARIABLES fs, sess, uploads

vars == <<fs, sess, uploads>>

(* ------------------------------ bounds -------------------------------- *)

\* Script runs (uploads) in one behaviour, over all sessions.
MaxUploads == 2

\* OCR items the results of one run may hold, over all its regions.
MaxItems == 2

\* Width and height of the uploaded picture, in pixels.
ImgSize == 4

(* --------------------------- program constants ------------------------ *)

\* threshold=0.85 of is_similar, in hundredths.
Threshold == 85

\* The thickness argument of cv2.rectangle.
Thickness == 2

ImageExts == {<<".", "j", "p", "g">>, <<".", "j", "p", "e", "g">>,
              <<".", "p", "n", "g">>, <<".", "b", "m", "p">>}

VideoExts == {<<".", "m", "p", "4">>, <<".", "a", "v", "i">>,
              <<".", "m", "o", "v">>, <<".", "m", "k", "v">>}

\* The colour (0, 255, 0) of the drawn rectangle.
BoxColour == <<0, 255, 0>>

(* ------------------------------ strings ------------------------------- *)

Max(S) == CHOOSE x \in S : \A y \in S : y <= x

Min(S) == CHOOSE x \in S : \A y \in S : x <= y

UpperCase == <<"A", "B", "C", "D", "E", "F", "G", "H", "I", "J", "K", "L", "M",
               "N", "O", "P", "Q", "R", "S", "T", "U", "V", "W", "X", "Y", "Z">>

LowerCase == <<"a", "b", "c", "d", "e", "f", "g", "h", "i", "j", "k", "l", "m",
               "n", "o", "p", "q", "r", "s", "t", "u", "v", "w", "x", "y", "z">>

\* str.lower(), character by character.
Lower(str) ==
    [i \in 1..Len(str) |->
        IF \E k \in 1..26 : UpperCase[k] = str[i]
        THEN LowerCase[CHOOSE k \in 1..26 : UpperCase[k] = str[i]]
        ELSE str[i]]

\* str.rfind(ch), 1-based; 0 when ch does not occur.
RFind(str, ch) == Max({0} \cup {i \in 1..Len(str) : str[i] = ch})

\* os.path.join("temp", name)
JoinTemp(name) == <<"t", "e", "m", "p", "/">> \o name

\* os.path.splitext(p)[1]: the text from the last dot of the last path
\* component, unless that component has only dots before it.
SplitExt(p) ==
    LET sepIndex == RFind(p, "/")
        dotIndex == RFind(p, ".")
    IN  IF /\ dotIndex > sepIndex
           /\ \E k \in (sepIndex + 1)..(dotIndex - 1) : p[k] # "."
        THEN SubSeq(p, dotIndex, Len(p))
        ELSE <<>>

Whitespace == {" ", "\t", "\n"}

\* text.strip()
Strip(text) ==
    LET keep == {i \in 1..Len(text) : text[i] \notin Whitespace}
    IN  IF keep = {} THEN <<>> ELSE SubSeq(text, Min(keep), Max(keep))

(* ------------------------- difflib.SequenceMatcher -------------------- *)

\* Length of the common run of a and b that starts at a[i], b[j] and stays
\* below ahi, bhi (exclusive).
RECURSIVE RunLen(_, _, _, _, _, _)
RunLen(a, b, i, j, ahi, bhi) ==
    IF i < ahi /\ j < bhi /\ a[i] = b[j]
    THEN 1 + RunLen(a, b, i + 1, j + 1, ahi, bhi)
    ELSE 0

\* find_longest_match(alo, ahi, blo, bhi) without junk: <<i, j, k>>, the
\* longest block a[i..i+k) = b[j..j+k) among those that start where a[i]
\* occurs in b; of the longest, the one that starts earliest in a, and of
\* those the one that starts earliest in b.
FindLongestMatch(a, b, alo, ahi, blo, bhi) ==
    LET blocks == UNION {{<<i, j, RunLen(a, b, i, j, ahi, bhi)>> :
                            j \in {j \in blo..(bhi - 1) : b[j] = a[i]}} :
                         i \in alo..(ahi - 1)}
        best    == Max({0} \cup {m[3] : m \in blocks})
        longest == {m \in blocks : m[3] = best}
        besti   == Min({m[1] : m \in longest})
        bestj   == Min({m[2] : m \in {q \in longest : q[1] = besti}})
    IN  IF blocks = {} THEN <<alo, blo, 0>> ELSE <<besti, bestj, best>>

\* get_matching_blocks(): the total size of the blocks found by matching the
\* longest block and then, recursively, the pieces left and right of it.
RECURSIVE MatchSize(_, _, _, _, _, _)
MatchSize(a, b, alo, ahi, blo, bhi) ==
    LET m == FindLongestMatch(a, b, alo, ahi, blo, bhi)
        i == m[1]
        j == m[2]
        k == m[3]
    IN  IF k = 0 THEN 0
        ELSE k
             + (IF alo < i /\ blo < j
                THEN MatchSize(a, b, alo, i, blo, j) ELSE 0)
             + (IF i + k < ahi /\ j + k < bhi
                THEN MatchSize(a, b, i + k, ahi, j + k, bhi) ELSE 0)

\* SequenceMatcher(None, a, b).ratio() = 2.0 * matches / (len(a) + len(b)),
\* 1.0 for two empty strings; kept exact as <<numerator, denominator>>.
Ratio(a, b) ==
    LET length == Len(a) + Len(b)
    IN  IF length = 0 THEN <<1, 1>>
        ELSE <<2 * MatchSize(a, b, 1, Len(a) + 1, 1, Len(b) + 1), length>>

\* ratio >= threshold on the exact quotient.  The code compares doubles:
\* 2.0*m/n is the double nearest to the quotient and 0.85 the double nearest
\* to 85/100, so the two orders agree for strings of these lengths, and
\* 34/40 and 0.85 are the same double.
AtLeast(r, hundredths) == r[1] * 100 >= hundredths * r[2]

Above(r, hundredths) == r[1] * 100 > hundredths * r[2]

IsSimilar_Strict(text, seen_texts, threshold) ==
    \E seen \in seen_texts : Above(Ratio(text, seen), threshold)

\* is_similar(text, seen_texts, threshold)
IsSimilar(text, seen_texts, threshold) ==
    \E seen \in seen_texts : AtLeast(Ratio(text, seen), threshold)

(* ------------------------------- images ------------------------------- *)

Pixels == (0..(ImgSize - 1)) \X (0..(ImgSize - 1))

\* None: a missing image, a missing path.  Images, paths and texts are all
\* functions, and None is the one with the empty domain.
None == <<>>

\* What an upload may hold: a picture (its pixels as imread decodes them,
\* <<blue, green, red>>), or bytes that are no picture.
PlateFile == [kind |-> "image", px |-> [p \in Pixels |-> <<p[1] + 1, p[2] + 1, 200>>]]

GarbageFile == [kind |-> "bytes", px |-> None]

\* The file just after open(path, "wb"): truncated, nothing written yet.
EmptyFile == [kind |-> "empty", px |-> None]

\* cv2.imread: the decoded pixels, None when the file holds no picture.
Imread(file) == IF file.kind = "image" THEN file.px ELSE None

\* cv2.cvtColor with COLOR_BGR2RGB or COLOR_RGB2BGR: the first and third
\* channel change places.
CvtColor(img) == [p \in DOMAIN img |-> <<img[p][3], img[p][2], img[p][1]>>]

\* int(v) of a non-negative coordinate; coordinates are kept in tenths.
ToInt(v) == v \div 10

\* map(int, box.xyxy[0])
BoxInts(box) == <<ToInt(box[1]), ToInt(box[2]), ToInt(box[3]), ToInt(box[4])>>

Between(v, lo, hi) == lo <= v /\ v <= hi

Near(v, w, d) == Between(v - w, -d, d)

\* The pixels cv2.rectangle(img, (x1, y1), (x2, y2), colour, Thickness)
\* colours: each of the four edges as a band reaching Thickness \div 2 pixels
\* to either side, and a cap of that radius around each corner.
RectanglePixels(x1, y1, x2, y2) ==
    LET r == Thickness \div 2
    IN  {p \in Pixels :
            \/ Between(p[1], x1, x2) /\ (Near(p[2], y1, r) \/ Near(p[2], y2, r))
            \/ Between(p[2], y1, y2) /\ (Near(p[1], x1, r) \/ Near(p[1], x2, r))
            \/ \E cx \in {x1, x2}, cy \in {y1, y2} :
                   \/ p[1] = cx /\ Near(p[2], cy, r)
                   \/ p[2] = cy /\ Near(p[1], cx, r)}

\* cv2.rectangle draws into the image it is given.
Rectangle(img, x1, y1, x2, y2) ==
    [p \in DOMAIN img |->
        IF p \in RectanglePixels(x1, y1, x2, y2) THEN BoxColour ELSE img[p]]

\* img[y1:y2, x1:x2]: the pixels with x1 <= x < x2 and y1 <= y < y2 that
\* the image has, indexed from the corner of the slice.
Crop(img, x1, y1, x2, y2) ==
    [q \in {<<p[1] - x1, p[2] - y1>> :
               p \in {p \in DOMAIN img : /\ x1 <= p[1] /\ p[1] < x2
                                         /\ y1 <= p[2] /\ p[2] < y2}}
        |-> img[<<q[1] + x1, q[2] + y1>>]]

(* ------------------------------- inputs ------------------------------- *)

Sessions == {"s1", "s2"}

\* The files a user may upload: uploaded_file.name and the bytes.  The
\* uploader lets through the names that end in one of its types, ".mp4"
\* among them, which has no extension for splitext.
UploadedFiles == {<<<<"a", ".", "J", "P", "G">>, PlateFile>>,
                  <<<<"b", ".", "p", "n", "g">>, GarbageFile>>,
                  <<<<"c", ".", "m", "p", "4">>, GarbageFile>>,
                  <<<<"d", ".", "M", "K", "V">>, GarbageFile>>,
                  <<<<".", "m", "p", "4">>, GarbageFile>>}

\* box.xyxy[0] of the detector's boxes, in tenths of a pixel; every box
\* keeps a positive width and height after int().
Box1 == <<4, 6, 27, 25>>

Box2 == <<12, 11, 39, 38>>

BoxLists == {<<>>, <<Box1>>, <<Box1, Box2>>}

\* What ocr_engine.ocr returns: nothing (a falsy result), [None] (no line
\* found), or [[item, ...]].
OcrShapes == {"falsy", "noline", "lines"}

Entry(text, conf) == [kind |-> "entry", text |-> text, conf |-> conf]

\* A falsy item, and an item that is not a 2-element entry.
EmptyItem == [kind |-> "empty", text |-> None, conf |-> 0]

OddItem == [kind |-> "odd", text |-> None, conf |-> 0]

NoItem == [kind |-> "none", text |-> None, conf |-> 0]

\* Texts the OCR engine may read.  Ratio(PlateA, PlateA8) = 10/12, below
\* the threshold; Ratio(Long17, Long23) = 34/40, the threshold itself.
PlateA == <<"K", "A", "0", "1", "A", "B">>

PlateA8 == <<"K", "A", "0", "1", "A", "8">>

Long17 == <<"P", "R", "I", "V", "A", "T", "E", " ", "4", "W", "D", "-", "6", "0", "5", "1", "9">>

Long23 == Long17 \o <<"_", "X", "L", "/", "G", "B">>

Blank == <<" ", " ">>

\* The items an OCR result is made of; conf in ten-thousandths.
Items == {Entry(PlateA, 9731), Entry(PlateA8, 8850),
          Entry(Long17, 7700), Entry(Long23, 6425), Entry(Blank, 5000),
          EmptyItem, OddItem}

(* ------------------------------ the state ----------------------------- *)

\* fs: the files of temp/, a function from path to file.  A file is
\*   [kind, px] as above, with two history fields: by, the run that wrote it,
\*   and src, the run whose upload its pixels come from.
\* sess: for each browser session, the state of its script run.
\* uploads: the number of script runs started so far.

\* The state of a script run before anything is uploaded.
\*   pc          where the run stands
\*   run         the number of this run (history)
\*   name, content   uploaded_file.name and the uploaded bytes
\*   bi          the boxes of results the loop has finished
\*   region      roi_bgr, the crop handed to the OCR engine
\*   result      the shape of the OCR result of the region
\*   n           the OCR items read so far in this run
\*   item, kept  the loop's item, and whether it was appended (history)
\*   tags        for each row, <<box, item>> it came from (history)
\*   read_by     the run that wrote the file imread decoded (history)
\*   ui          the elements the run has put on the page
\*   shown       the file st.image displayed
\*   events      the steps of the run, in order (history)
Fresh ==
    [pc |-> "idle", run |-> 0, name |-> None, content |-> EmptyFile,
     input_path |-> None, output_path |-> None,
     image |-> None, image_rgb |-> None, read_by |-> 0,
     results |-> <<>>, bi |-> 0, region |-> None,
     result |-> "falsy", n |-> 0, item |-> NoItem, kept |-> FALSE,
     extracted |-> <<>>, seen_texts |-> {}, ocr_data |-> <<>>, tags |-> <<>>,
     result_path |-> None, ocr_results |-> <<>>,
     ui |-> {}, shown |-> [by |-> 0, src |-> 0], events |-> <<>>]

Init ==
    /\ fs = <<>>
    /\ sess = [s \in Sessions |-> Fresh]
    /\ uploads = 0

Put(files, path, file) ==
    [q \in DOMAIN files \cup {path} |-> IF q = path THEN file ELSE files[q]]

Stored(file, by, src) ==
    [kind |-> file.kind, px |-> file.px, by |-> by, src |-> src]

OutputName(name) == <<"o", "u", "t", "p", "u", "t", "_">> \o name

(* ----------------------------- main logic ------------------------------ *)

\* A file is uploaded and the script runs anew: input_path and output_path.
Upload(s, n, c) ==
    /\ sess[s].pc \in {"idle", "done", "crashed"}
    /\ uploads < MaxUploads
    /\ uploads' = uploads + 1
    /\ sess' = [sess EXCEPT ![s] =
                  [Fresh EXCEPT !.pc = "open", !.run = uploads + 1,
                                !.name = n, !.content = c,
                                !.input_path = JoinTemp(n),
                                !.output_path = JoinTemp(OutputName(n))]]
    /\ UNCHANGED fs

\* open(input_path, "wb") truncates the file.
OpenInput(s) ==
    /\ sess[s].pc = "open"
    /\ fs' = Put(fs, sess[s].input_path, Stored(EmptyFile, sess[s].run, sess[s].run))
    /\ sess' = [sess EXCEPT ![s].pc = "write"]
    /\ UNCHANGED uploads

\* f.write(uploaded_file.getbuffer()), then the two notices.
WriteInput(s) ==
    /\ sess[s].pc = "write"
    /\ fs' = Put(fs, sess[s].input_path,
                 Stored(sess[s].content, sess[s].run, sess[s].run))
    /\ sess' = [sess EXCEPT ![s].pc = "media",
                            ![s].ui = @ \cup {"saved", "processing"},
                            ![s].events = Append(@, "saved")]
    /\ UNCHANGED uploads

MediaKind_MkvIsImage(ext) ==
    IF ext \in ImageExts \cup {<<".", "m", "k", "v">>} THEN "image"
    ELSE IF ext \in VideoExts THEN "video"
    ELSE "other"

\* The branch process_media takes for a lower-cased extension.
MediaKind(ext) ==
    IF ext \in ImageExts THEN "image"
    ELSE IF ext \in VideoExts THEN "video"
    ELSE "other"

\* process_media up to the call of process_image, or to its return of
\* (None, []) with a warning or an error.
ProcessMedia(s) ==
    /\ sess[s].pc = "media"
    /\ LET kind == MediaKind(Lower(SplitExt(sess[s].input_path)))
       IN  sess' = [sess EXCEPT ![s] =
             IF kind = "image"
             THEN [@ EXCEPT !.pc = "imread"]
             ELSE [@ EXCEPT !.pc = "render",
                            !.ui = @ \cup {IF kind = "video" THEN "warning_video"
                                           ELSE "error_unsupported"},
                            !.result_path = None,
                            !.ocr_results = <<>>,
                            !.events = Append(@, "return")]]
    /\ UNCHANGED <<fs, uploads>>

(* ---------------------------- process_image ---------------------------- *)

\* image = cv2.imread(image_path); image_rgb = cv2.cvtColor(image, ...).
\* cvtColor raises on None: the run ends and the page shows the exception.
ReadImage(s) ==
    /\ sess[s].pc = "imread"
    /\ LET file  == fs[sess[s].input_path]
           image == Imread(file)
       IN  sess' = [sess EXCEPT ![s] =
             IF image = None
             THEN [@ EXCEPT !.pc = "crashed", !.ui = @ \cup {"exception"}]
             ELSE [@ EXCEPT !.pc = "predict", !.image = image,
                            !.image_rgb = CvtColor(image),
                            !.read_by = file.by]]
    /\ UNCHANGED <<fs, uploads>>

\* results = model.predict(...); ocr_data = []; seen_texts = set()
Predict(s, boxes) ==
    /\ sess[s].pc = "predict"
    /\ sess' = [sess EXCEPT ![s].pc = "boxes",
                            ![s].results = boxes,
                            ![s].bi = 0,
                            ![s].ocr_data = <<>>,
                            ![s].seen_texts = {},
                            ![s].events = Append(@, "predict")]
    /\ UNCHANGED <<fs, uploads>>

SeenForRegion_Fresh(seen_texts) == {}

\* The seen_texts argument of extract_text_from_region: the caller's one
\* set, which the callee adds to.
SeenForRegion(seen_texts) == seen_texts

LoopDone_AfterFirstBox(bi, results) == bi >= 1 \/ bi = Len(results)

\* The loop over result.boxes has no box left.
LoopDone(bi, results) == bi = Len(results)

\* One box: the rectangle is drawn on image_rgb, roi is sliced from
\* image_rgb, converted, and handed to ocr_engine.ocr.
BoxStep(s, shape) ==
    /\ sess[s].pc = "boxes"
    /\ ~LoopDone(sess[s].bi, sess[s].results)
    /\ LET b     == BoxInts(sess[s].results[sess[s].bi + 1])
           drawn == Rectangle(sess[s].image_rgb, b[1], b[2], b[3], b[4])
           roi   == Crop(drawn, b[1], b[2], b[3], b[4])
       IN  sess' = [sess EXCEPT ![s].pc = "items",
                                ![s].image_rgb = drawn,
                                ![s].region = CvtColor(roi),
                                ![s].result = shape,
                                ![s].seen_texts = SeenForRegion(@),
                                ![s].extracted = <<>>,
                                ![s].events = Append(@, "ocr")]
    /\ UNCHANGED <<fs, uploads>>

\* 'Confidence': f"{conf * 100:.2f}%", as <<whole percent, hundredths>>.
FormatConf(conf) == <<conf \div 100, conf % 100>>

ExtractItem_NoStrip(item, seen_texts, extracted) ==
    IF item.kind = "entry" /\ ~IsSimilar(item.text, seen_texts, Threshold)
    THEN [seen_texts |-> seen_texts \cup {item.text},
          extracted  |-> Append(extracted, [DetectedText |-> item.text,
                                            Confidence |-> FormatConf(item.conf)]),
          kept |-> TRUE]
    ELSE [seen_texts |-> seen_texts, extracted |-> extracted, kept |-> FALSE]

ExtractItem_NoAdd(item, seen_texts, extracted) ==
    IF /\ item.kind = "entry"
       /\ ~IsSimilar(item.text, seen_texts, Threshold)
       /\ Strip(item.text) # <<>>
    THEN [seen_texts |-> seen_texts,
          extracted  |-> Append(extracted, [DetectedText |-> item.text,
                                            Confidence |-> FormatConf(item.conf)]),
          kept |-> TRUE]
    ELSE [seen_texts |-> seen_texts, extracted |-> extracted, kept |-> FALSE]

\* The body of the loop over a line's items: what it makes of seen_texts
\* and extracted.
ExtractItem(item, seen_texts, extracted) ==
    IF /\ item.kind = "entry"
       /\ ~IsSimilar(item.text, seen_texts, Threshold)
       /\ Strip(item.text) # <<>>
    THEN [seen_texts |-> seen_texts \cup {item.text},
          extracted  |-> Append(extracted, [DetectedText |-> item.text,
                                            Confidence |-> FormatConf(item.conf)]),
          kept |-> TRUE]
    ELSE [seen_texts |-> seen_texts, extracted |-> extracted, kept |-> FALSE]

\* The next item of the OCR result goes through the loop body.
ItemStep(s, it) ==
    /\ sess[s].pc = "items"
    /\ sess[s].result = "lines"
    /\ sess[s].n < MaxItems
    /\ LET r == ExtractItem(it, sess[s].seen_texts, sess[s].extracted)
       IN  sess' = [sess EXCEPT ![s].item = it,
                                ![s].kept = r.kept,
                                ![s].n = @ + 1,
                                ![s].seen_texts = r.seen_texts,
                                ![s].extracted = r.extracted,
                                ![s].tags = IF r.kept
                                            THEN Append(@, <<sess[s].bi + 1, sess[s].n + 1>>)
                                            ELSE @]
    /\ UNCHANGED <<fs, uploads>>

\* extract_text_from_region returns; ocr_data.extend(...); next box.
RegionDone(s) ==
    /\ sess[s].pc = "items"
    /\ sess' = [sess EXCEPT ![s].pc = "boxes",
                            ![s].ocr_data = @ \o sess[s].extracted,
                            ![s].extracted = <<>>,
                            ![s].bi = @ + 1,
                            ![s].region = None,
                            ![s].result = "falsy",
                            ![s].item = NoItem,
                            ![s].kept = FALSE,
                            ![s].events = Append(@, "box")]
    /\ UNCHANGED <<fs, uploads>>

\* cv2.imwrite(output_path, ...); return output_path, ocr_data.  The locals
\* of process_image end with it.
Imwrite(s) ==
    /\ sess[s].pc = "boxes"
    /\ LoopDone(sess[s].bi, sess[s].results)
    /\ fs' = Put(fs, sess[s].output_path,
                 [kind |-> "image", px |-> CvtColor(sess[s].image_rgb),
                  by |-> sess[s].run, src |-> sess[s].read_by])
    /\ sess' = [sess EXCEPT ![s].pc = "render",
                            ![s].result_path = sess[s].output_path,
                            ![s].ocr_results = sess[s].ocr_data,
                            ![s].image = None,
                            ![s].image_rgb = None,
                            ![s].seen_texts = {},
                            ![s].ocr_data = <<>>,
                            ![s].events = @ \o <<"imwrite", "return">>]
    /\ UNCHANGED uploads

(* ------------------------------ rendering ------------------------------ *)

RenderUI_TableAlways(result_path, exists, ocr_results) ==
    IF result_path # None /\ exists
    THEN {"image", "dataframe"}
    ELSE {"info_upload_image"}

\* What the main logic shows for process_media's answer.
RenderUI(result_path, exists, ocr_results) ==
    IF result_path # None /\ exists
    THEN {"image"} \cup (IF ocr_results # <<>> THEN {"dataframe"}
                         ELSE {"info_no_text"})
    ELSE {"info_upload_image"}

Render(s) ==
    /\ sess[s].pc = "render"
    /\ LET path   == sess[s].result_path
           exists == path \in DOMAIN fs
           shows  == RenderUI(path, exists, sess[s].ocr_results)
       IN  sess' = [sess EXCEPT ![s].pc = "done",
                                ![s].ui = @ \cup shows,
                                ![s].shown = IF "image" \in shows
                                             THEN [by |-> fs[path].by, src |-> fs[path].src]
                                             ELSE @,
                                ![s].events = Append(@, "render")]
    /\ UNCHANGED <<fs, uploads>>

(* --------------------------- specifications ---------------------------- *)

\* One browser session, every input.
Next ==
    \E s \in {"s1"} :
        \/ \E u \in UploadedFiles : Upload(s, u[1], u[2])
        \/ OpenInput(s)
        \/ WriteInput(s)
        \/ ProcessMedia(s)
        \/ ReadImage(s)
        \/ \E boxes \in BoxLists : Predict(s, boxes)
        \/ \E shape \in OcrShapes : BoxStep(s, shape)
        \/ \E it \in Items : ItemStep(s, it)
        \/ RegionDone(s)
        \/ Imwrite(s)
        \/ Render(s)

Spec == Init /\ [][Next]_vars

\* Two browser sessions at once, on names that meet in temp/.
SharedFiles == {<<<<"a", ".", "j", "p", "g">>, PlateFile>>,
                <<<<"o", "u", "t", "p", "u", "t", "_", "a", ".", "j", "p", "g">>, PlateFile>>,
                <<<<"c", ".", "m", "p", "4">>, GarbageFile>>}

NextShared ==
    \E s \in Sessions :
        \/ \E u \in SharedFiles : Upload(s, u[1], u[2])
        \/ OpenInput(s)
        \/ WriteInput(s)
        \/ ProcessMedia(s)
        \/ ReadImage(s)
        \/ \E boxes \in {<<>>, <<Box1>>} : Predict(s, boxes)
        \/ \E shape \in {"noline", "lines"} : BoxStep(s, shape)
        \/ \E it \in {Entry(PlateA, 9731)} : ItemStep(s, it)
        \/ RegionDone(s)
        \/ Imwrite(s)
        \/ Render(s)

SpecShared == Init /\ [][NextShared]_vars

(* ------------------------------- claims -------------------------------- *)

InRun(s) == sess[s].pc \in {"boxes", "items"}

\* The rows emitted so far in the run of s, and after it the rows returned.
Rows(s) ==
    IF InRun(s) THEN sess[s].ocr_data \o sess[s].extracted
    ELSE sess[s].ocr_results

Texts(rows) == {rows[i].DetectedText : i \in DOMAIN rows}

\* The item the loop has just handled is an entry with non-blank text.
NonBlankItem(s) ==
    /\ sess[s].pc = "items"
    /\ sess[s].item.kind = "entry"
    /\ Strip(sess[s].item.text) # <<>>

\* The item the loop has just handled is blank, empty or no 2-element entry.
IdleItem(s) ==
    /\ sess[s].pc = "items"
    /\ \/ sess[s].item.kind \in {"empty", "odd"}
       \/ sess[s].item.kind = "entry" /\ Strip(sess[s].item.text) = <<>>

\* The rows kept before the item the loop has just handled.
Earlier(s) ==
    IF sess[s].kept THEN SubSeq(Rows(s), 1, Len(Rows(s)) - 1) ELSE Rows(s)

IsImage(s) == Lower(SplitExt(sess[s].input_path)) \in ImageExts

IsVideo(s) == Lower(SplitExt(sess[s].input_path)) \in VideoExts

Returned(s) == sess[s].pc \in {"render", "done"}

IsPrefix(p, q) == Len(p) <= Len(q) /\ SubSeq(q, 1, Len(p)) = p

\* C1 as stated: a non-blank line is discarded exactly when its ratio to a
\* row kept before it is above 0.85, and no later row has a ratio above 0.85
\* to an earlier row.
C1_DiscardedIffAbove ==
    \A s \in Sessions :
        /\ NonBlankItem(s) =>
             (~sess[s].kept <=>
                \E i \in DOMAIN Earlier(s) :
                    Above(Ratio(sess[s].item.text, Earlier(s)[i].DetectedText), Threshold))
        /\ \A j \in DOMAIN Rows(s) : \A i \in 1..(j - 1) :
               ~Above(Ratio(Rows(s)[j].DetectedText, Rows(s)[i].DetectedText), Threshold)

\* C1 amended: a non-blank line is discarded exactly when its ratio to a row
\* kept before it is 0.85 or more, and every later row has a ratio below
\* 0.85 to every earlier row.
C1_DiscardedIffAtLeast ==
    \A s \in Sessions :
        /\ NonBlankItem(s) =>
             (~sess[s].kept <=>
                \E i \in DOMAIN Earlier(s) :
                    AtLeast(Ratio(sess[s].item.text, Earlier(s)[i].DetectedText), Threshold))
        /\ \A j \in DOMAIN Rows(s) : \A i \in 1..(j - 1) :
               ~AtLeast(Ratio(Rows(s)[j].DetectedText, Rows(s)[i].DetectedText), Threshold)

\* A non-blank line has been discarded whose ratio to the one kept row is
\* the threshold itself.
C1_Witness ==
    \E s \in Sessions :
        /\ NonBlankItem(s)
        /\ ~sess[s].kept
        /\ Len(Rows(s)) = 1
        /\ LET r == Ratio(sess[s].item.text, Rows(s)[1].DetectedText)
           IN  r[1] * 100 = Threshold * r[2]

\* C2: a run on a path with a video extension never detects, never runs
\* OCR, never writes the output path, warns, returns (None, []) and shows
\* neither image nor table.
C2_VideoRejected ==
    \A s \in Sessions :
        (sess[s].run > 0 /\ IsVideo(s)) =>
            /\ \A k \in DOMAIN sess[s].events :
                   sess[s].events[k] \notin {"predict", "ocr", "box", "imwrite"}
            /\ sess[s].pc \notin {"imread", "predict", "boxes", "items", "crashed"}
            /\ \/ sess[s].output_path \notin DOMAIN fs
               \/ fs[sess[s].output_path].by # sess[s].run
            /\ Returned(s) =>
                 /\ "warning_video" \in sess[s].ui
                 /\ sess[s].result_path = None
                 /\ sess[s].ocr_results = <<>>
            /\ sess[s].ui \cap {"image", "dataframe", "info_no_text"} = {}

\* A run on an upper-case video name has been rendered.
C2_Witness ==
    \E s \in Sessions :
        /\ IsVideo(s)
        /\ sess[s].pc = "done"
        /\ SplitExt(sess[s].input_path) \notin VideoExts
        /\ "info_upload_image" \in sess[s].ui

\* C3: every pixel of the crop handed to the OCR engine is the pixel the
\* uploaded image has at that place.
C3_CropIsOriginal ==
    \A s \in Sessions :
        sess[s].pc = "items" =>
            LET b == BoxInts(sess[s].results[sess[s].bi + 1])
            IN  \A q \in DOMAIN sess[s].region :
                    sess[s].region[q] = sess[s].image[<<q[1] + b[1], q[2] + b[2]>>]

\* The steps of a complete run on an image, for the boxes detected.
ExpectedEvents(boxes) ==
    <<"saved", "predict">>
    \o [k \in 1..(2 * Len(boxes)) |-> IF k % 2 = 1 THEN "ocr" ELSE "box"]
    \o <<"imwrite", "return", "render">>

Before(t, u) == t[1] < u[1] \/ (t[1] = u[1] /\ t[2] < u[2])

\* C4: the steps of a run on an image extension come in the order save,
\* detect, each box in turn, one write of the annotated image, return,
\* render; a run that returns has written the output path and returns it,
\* with no box too; the rows are in box order, then line order.
C4_StepOrder ==
    \A s \in Sessions :
        (sess[s].run > 0 /\ IsImage(s)) =>
            /\ IsPrefix(sess[s].events, ExpectedEvents(sess[s].results))
            /\ sess[s].pc = "done" => sess[s].events = ExpectedEvents(sess[s].results)
            /\ Returned(s) =>
                 /\ sess[s].result_path = sess[s].output_path
                 /\ sess[s].output_path \in DOMAIN fs
                 /\ sess[s].bi = Len(sess[s].results)
            /\ Len(sess[s].tags) = Len(Rows(s))
            /\ \A j \in DOMAIN sess[s].tags : \A i \in 1..(j - 1) :
                   Before(sess[s].tags[i], sess[s].tags[j])

\* A run on two boxes has been rendered with a row from each box.
C4_Witness ==
    \E s \in Sessions :
        /\ IsImage(s)
        /\ sess[s].pc = "done"
        /\ Len(sess[s].results) = 2
        /\ {sess[s].tags[k][1] : k \in DOMAIN sess[s].tags} = {1, 2}

\* C5: when the main logic is through, the image is shown exactly when the
\* returned path is not None and exists; with the image, the table is shown
\* exactly when there are rows and 'No text detected' exactly when there are
\* none; without the image, the 'please upload' notice and no table.
C5_Rendering ==
    \A s \in Sessions :
        sess[s].pc = "done" =>
            /\ "image" \in sess[s].ui <=>
                 (sess[s].result_path # None /\ sess[s].result_path \in DOMAIN fs)
            /\ "image" \in sess[s].ui =>
                 /\ "dataframe" \in sess[s].ui <=> sess[s].ocr_results # <<>>
                 /\ "info_no_text" \in sess[s].ui <=> sess[s].ocr_results = <<>>
            /\ "image" \notin sess[s].ui =>
                 /\ "info_upload_image" \in sess[s].ui
                 /\ "dataframe" \notin sess[s].ui

\* A run has shown the image and, having no rows, 'No text detected'.
C5_Witness ==
    \E s \in Sessions :
        /\ sess[s].pc = "done"
        /\ sess[s].ui \cap {"image", "info_no_text", "dataframe"} = {"image", "info_no_text"}
        /\ Len(sess[s].results) > 0

\* C6: process_image starts on an empty seen set, the texts kept from the
\* boxes done so far stay in it for the later boxes, it holds the texts of
\* this run's rows only, and no row of a later box has a ratio of 0.85 or
\* more to a row of an earlier box.
C6_SeenAcrossBoxes ==
    \A s \in Sessions :
        /\ (sess[s].pc = "boxes" /\ sess[s].bi = 0) => sess[s].seen_texts = {}
        /\ InRun(s) =>
             /\ Texts(sess[s].ocr_data) \subseteq sess[s].seen_texts
             /\ sess[s].seen_texts \subseteq Texts(Rows(s))
        /\ \A j \in DOMAIN Rows(s) : \A i \in 1..(j - 1) :
               sess[s].tags[i][1] # sess[s].tags[j][1] =>
                   ~AtLeast(Ratio(Rows(s)[j].DetectedText, Rows(s)[i].DetectedText),
                            Threshold)

\* In the second run, the first line of the second box has been discarded
\* for a text kept from the first box.
C6_Witness ==
    \E s \in Sessions :
        /\ sess[s].run = 2
        /\ NonBlankItem(s)
        /\ sess[s].bi = 1
        /\ ~sess[s].kept
        /\ sess[s].extracted = <<>>
        /\ sess[s].ocr_data # <<>>

\* C7: a run on an image extension returns the output path and never
\* fails; a run on a video extension returns (None, []) with the warning;
\* a run on any other path returns (None, []) with the error.
C7_ThreeOutcomes ==
    \A s \in Sessions :
        sess[s].run > 0 =>
            /\ sess[s].pc # "crashed"
            /\ Returned(s) =>
                 IF IsImage(s)
                 THEN sess[s].result_path = sess[s].output_path
                 ELSE /\ sess[s].result_path = None
                      /\ sess[s].ocr_results = <<>>
                      /\ (IF IsVideo(s) THEN "warning_video" ELSE "error_unsupported")
                             \in sess[s].ui

\* C8: a blank line, an empty item and an item that is no 2-element entry
\* are not kept and leave no row behind; no row and no seen text is blank.
C8_IdleItems ==
    \A s \in Sessions :
        /\ IdleItem(s) => ~sess[s].kept
        /\ \A i \in DOMAIN Rows(s) : Strip(Rows(s)[i].DetectedText) # <<>>
        /\ \A t \in sess[s].seen_texts : Strip(t) # <<>>
        /\ Len(sess[s].tags) = Len(Rows(s))
        /\ IdleItem(s) =>
               \A k \in DOMAIN sess[s].tags : sess[s].tags[k][2] # sess[s].n

\* A blank line has gone through the loop after a kept line.
C8_Witness ==
    \E s \in Sessions :
        /\ IdleItem(s)
        /\ sess[s].item.kind = "entry"
        /\ sess[s].seen_texts # {}

\* C9: during process_image the seen set is the set of the texts of the
\* rows so far and has as many members as there are rows; no two rows have
\* the same text.
C9_SeenIsRowTexts ==
    \A s \in Sessions :
        /\ InRun(s) =>
             /\ sess[s].seen_texts = Texts(Rows(s))
             /\ Len(Rows(s)) = Cardinality(sess[s].seen_texts)
        /\ \A i, j \in DOMAIN Rows(s) :
               i # j => Rows(s)[i].DetectedText # Rows(s)[j].DetectedText

\* A line equal to the text of a kept row has been discarded.
C9_Witness ==
    \E s \in Sessions :
        /\ NonBlankItem(s)
        /\ ~sess[s].kept
        /\ sess[s].item.text \in sess[s].seen_texts
        /\ Len(Rows(s)) >= 1

\* C10: the file imread decodes was written by this run's upload, the saved
\* input stays this run's while it is processed, and the image shown was
\* written by this run from this run's upload.
C10_OwnFiles ==
    \A s \in Sessions :
        /\ sess[s].pc \in {"media", "imread", "predict", "boxes", "items"} =>
               fs[sess[s].input_path].by = sess[s].run
        /\ InRun(s) => sess[s].read_by = sess[s].run
        /\ (sess[s].pc = "done" /\ "image" \in sess[s].ui) =>
               sess[s].shown = [by |-> sess[s].run, src |-> sess[s].run]

====
